---- MODULE Spec2Model ----
(***************************************************************************)
(* CV2CSV: resume documents -> structured records -> table.                *)
(* Model of src/app.py (field configuration sidebar, batch processing,     *)
(* response cleaning, table assembly) and src/cv2con.py (text extraction). *)
(*                                                                         *)
(* Python strings are sequences of one-character strings, so that          *)
(* strip(), lower(), startswith(), split() and slicing are computed        *)
(* character by character as the code computes them.  A Python dict is a   *)
(* sequence of <<key, value>> pairs in insertion order.  An optional value *)
(* (None or a value) is a sequence of length 0 or 1.                       *)
(***************************************************************************)
EXTENDS Integers, Sequences, FiniteSets, TLC

(* ------------------------------ bounds -------------------------------- *)

\* Largest number of files in one batch.
MaxDocs == 2

\* Largest number of fields the add-field form is used to build.
MaxFields == 2

\* Largest number of user interactions (sidebar edits, button presses) in a session.
MaxActions == 2

(* --------------------------- Python strings --------------------------- *)

\* The character ` (U+0060), which a TLA+ string literal cannot hold.
Backtick == "backtick"

None == <<>>

Some(x) == <<x>>

UpperCase == <<"A","B","C","D","E","F","G","H","I","J","K","L","M","N","O","P","Q","R","S","T","U","V","W","X","Y","Z">>

LowerCase == <<"a","b","c","d","e","f","g","h","i","j","k","l","m","n","o","p","q","r","s","t","u","v","w","x","y","z">>

\* str.lower() on one character
LowerChar(c) ==
    IF \E k \in DOMAIN UpperCase : UpperCase[k] = c
    THEN LowerCase[CHOOSE k \in DOMAIN UpperCase : UpperCase[k] = c]
    ELSE c

\* str.lower()
Lower(s) == [k \in DOMAIN s |-> LowerChar(s[k])]

Whitespace == {" ", "\n", "\t", "\r"}

\* str.strip(): drop leading and trailing whitespace
Strip(s) ==
    LET keep == {k \in DOMAIN s : s[k] \notin Whitespace}
    IN  IF keep = {} THEN <<>>
        ELSE SubSeq(s, CHOOSE k \in keep : \A m \in keep : k <= m,
                       CHOOSE k \in keep : \A m \in keep : k >= m)

\* str.startswith(prefix)
StartsWith(s, prefix) ==
    /\ Len(s) >= Len(prefix)
    /\ SubSeq(s, 1, Len(prefix)) = prefix

\* s[start:-drop] for start >= 0, drop > 0 (Python slice, clamped)
Slice(s, start, drop) ==
    IF start + 1 > Len(s) - drop THEN <<>>
    ELSE SubSeq(s, start + 1, Len(s) - drop)

\* s.split('.')[-1]: the text after the last '.', the whole string when there is none
SplitLast(s) ==
    LET dots == {k \in DOMAIN s : s[k] = "."}
    IN  IF dots = {} THEN s
        ELSE SubSeq(s, (CHOOSE k \in dots : \A m \in dots : k >= m) + 1, Len(s))

\* x in list
InList(x, list) == \E k \in DOMAIN list : list[k] = x

(* ---------------------------- Python dicts ---------------------------- *)

Keys(d) == [k \in DOMAIN d |-> d[k][1]]

HasKey(d, key) == \E k \in DOMAIN d : d[k][1] = key

\* d[key] = value: replaces in place, else appends (insertion order is kept)
DictSet(d, key, value) ==
    IF HasKey(d, key)
    THEN [k \in DOMAIN d |-> IF d[k][1] = key THEN <<key, value>> ELSE d[k]]
    ELSE Append(d, <<key, value>>)

\* d[key] of a dict that has the key
DictGet(d, key) == d[CHOOSE k \in DOMAIN d : d[k][1] = key][2]

(* ------------------------------ literals ------------------------------ *)

file_name_key == <<"f", "i", "l", "e", "_", "n", "a", "m", "e">>

processed_date_key == <<"p", "r", "o", "c", "e", "s", "s", "e", "d", "_", "d", "a", "t", "e">>

FileNameLabel == <<"F", "i", "l", "e", " ", "N", "a", "m", "e">>

ProcessedDateLabel == <<"P", "r", "o", "c", "e", "s", "s", "e", "d", " ", "D", "a", "t", "e">>

NotFound == <<"N", "o", "t", " ", "F", "o", "u", "n", "d">>

Field(field_name, description, column_name) ==
    [field_name |-> field_name, description |-> description, column_name |-> column_name]

basic_fields == <<
    Field(<<"f", "u", "l", "l", "_", "n", "a", "m", "e">>, <<"F", "u", "l", "l", " ", "n", "a", "m", "e", " ", "o", "f", " ", "t", "h", "e", " ", "c", "a", "n", "d", "i", "d", "a", "t", "e">>, <<"F", "u", "l", "l", " ", "N", "a", "m", "e">>),
    Field(<<"e", "m", "a", "i", "l", "_", "a", "d", "d", "r", "e", "s", "s">>, <<"E", "m", "a", "i", "l", " ", "a", "d", "d", "r", "e", "s", "s", " ", "o", "f", " ", "t", "h", "e", " ", "c", "a", "n", "d", "i", "d", "a", "t", "e">>, <<"E", "m", "a", "i", "l">>),
    Field(<<"p", "h", "o", "n", "e", "_", "n", "u", "m", "b", "e", "r">>, <<"P", "h", "o", "n", "e", " ", "n", "u", "m", "b", "e", "r", " ", "o", "f", " ", "t", "h", "e", " ", "c", "a", "n", "d", "i", "d", "a", "t", "e">>, <<"P", "h", "o", "n", "e">>),
    Field(<<"c", "u", "r", "r", "e", "n", "t", "_", "l", "o", "c", "a", "t", "i", "o", "n">>, <<"C", "u", "r", "r", "e", "n", "t", " ", "l", "o", "c", "a", "t", "i", "o", "n", " ", "o", "r", " ", "a", "d", "d", "r", "e", "s", "s">>, <<"L", "o", "c", "a", "t", "i", "o", "n">>),
    Field(<<"t", "o", "t", "a", "l", "_", "e", "x", "p", "e", "r", "i", "e", "n", "c", "e">>, <<"T", "o", "t", "a", "l", " ", "y", "e", "a", "r", "s", " ", "o", "f", " ", "w", "o", "r", "k", " ", "e", "x", "p", "e", "r", "i", "e", "n", "c", "e">>, <<"E", "x", "p", "e", "r", "i", "e", "n", "c", "e", " ", "(", "Y", "e", "a", "r", "s", ")">>),
    Field(<<"c", "u", "r", "r", "e", "n", "t", "_", "r", "o", "l", "e">>, <<"C", "u", "r", "r", "e", "n", "t", " ", "j", "o", "b", " ", "t", "i", "t", "l", "e", " ", "o", "r", " ", "p", "o", "s", "i", "t", "i", "o", "n">>, <<"C", "u", "r", "r", "e", "n", "t", " ", "R", "o", "l", "e">>),
    Field(<<"h", "i", "g", "h", "e", "s", "t", "_", "e", "d", "u", "c", "a", "t", "i", "o", "n">>, <<"H", "i", "g", "h", "e", "s", "t", " ", "e", "d", "u", "c", "a", "t", "i", "o", "n", "a", "l", " ", "q", "u", "a", "l", "i", "f", "i", "c", "a", "t", "i", "o", "n">>, <<"E", "d", "u", "c", "a", "t", "i", "o", "n">>),
    Field(<<"k", "e", "y", "_", "s", "k", "i", "l", "l", "s">>, <<"T", "e", "c", "h", "n", "i", "c", "a", "l", " ", "a", "n", "d", " ", "p", "r", "o", "f", "e", "s", "s", "i", "o", "n", "a", "l", " ", "s", "k", "i", "l", "l", "s">>, <<"S", "k", "i", "l", "l", "s">>) >>

education_fields == <<
    Field(<<"c", "a", "n", "d", "i", "d", "a", "t", "e", "_", "n", "a", "m", "e">>, <<"F", "u", "l", "l", " ", "n", "a", "m", "e", " ", "o", "f", " ", "t", "h", "e", " ", "c", "a", "n", "d", "i", "d", "a", "t", "e">>, <<"N", "a", "m", "e">>),
    Field(<<"c", "o", "n", "t", "a", "c", "t", "_", "e", "m", "a", "i", "l">>, <<"E", "m", "a", "i", "l", " ", "a", "d", "d", "r", "e", "s", "s">>, <<"E", "m", "a", "i", "l">>),
    Field(<<"u", "g", "_", "d", "e", "g", "r", "e", "e">>, <<"U", "n", "d", "e", "r", "g", "r", "a", "d", "u", "a", "t", "e", " ", "d", "e", "g", "r", "e", "e", " ", "n", "a", "m", "e">>, <<"U", "G", " ", "D", "e", "g", "r", "e", "e">>),
    Field(<<"u", "g", "_", "c", "o", "l", "l", "e", "g", "e">>, <<"U", "n", "d", "e", "r", "g", "r", "a", "d", "u", "a", "t", "e", " ", "c", "o", "l", "l", "e", "g", "e", " ", "n", "a", "m", "e">>, <<"U", "G", " ", "C", "o", "l", "l", "e", "g", "e">>),
    Field(<<"u", "g", "_", "y", "e", "a", "r">>, <<"U", "n", "d", "e", "r", "g", "r", "a", "d", "u", "a", "t", "e", " ", "g", "r", "a", "d", "u", "a", "t", "i", "o", "n", " ", "y", "e", "a", "r">>, <<"U", "G", " ", "Y", "e", "a", "r">>),
    Field(<<"p", "g", "_", "d", "e", "g", "r", "e", "e">>, <<"P", "o", "s", "t", "g", "r", "a", "d", "u", "a", "t", "e", " ", "d", "e", "g", "r", "e", "e", " ", "n", "a", "m", "e">>, <<"P", "G", " ", "D", "e", "g", "r", "e", "e">>),
    Field(<<"p", "g", "_", "c", "o", "l", "l", "e", "g", "e">>, <<"P", "o", "s", "t", "g", "r", "a", "d", "u", "a", "t", "e", " ", "c", "o", "l", "l", "e", "g", "e", " ", "n", "a", "m", "e">>, <<"P", "G", " ", "C", "o", "l", "l", "e", "g", "e">>),
    Field(<<"p", "g", "_", "y", "e", "a", "r">>, <<"P", "o", "s", "t", "g", "r", "a", "d", "u", "a", "t", "e", " ", "g", "r", "a", "d", "u", "a", "t", "i", "o", "n", " ", "y", "e", "a", "r">>, <<"P", "G", " ", "Y", "e", "a", "r">>),
    Field(<<"c", "g", "p", "a", "_", "p", "e", "r", "c", "e", "n", "t", "a", "g", "e">>, <<"C", "G", "P", "A", " ", "o", "r", " ", "p", "e", "r", "c", "e", "n", "t", "a", "g", "e", " ", "m", "e", "n", "t", "i", "o", "n", "e", "d">>, <<"C", "G", "P", "A", "/", "P", "e", "r", "c", "e", "n", "t", "a", "g", "e">>) >>

hr_fields == <<
    Field(<<"a", "p", "p", "l", "i", "c", "a", "n", "t", "_", "n", "a", "m", "e">>, <<"F", "u", "l", "l", " ", "n", "a", "m", "e", " ", "o", "f", " ", "t", "h", "e", " ", "a", "p", "p", "l", "i", "c", "a", "n", "t">>, <<"A", "p", "p", "l", "i", "c", "a", "n", "t", " ", "N", "a", "m", "e">>),
    Field(<<"c", "o", "n", "t", "a", "c", "t", "_", "n", "u", "m", "b", "e", "r">>, <<"C", "o", "n", "t", "a", "c", "t", " ", "p", "h", "o", "n", "e", " ", "n", "u", "m", "b", "e", "r">>, <<"C", "o", "n", "t", "a", "c", "t", " ", "N", "u", "m", "b", "e", "r">>),
    Field(<<"e", "m", "a", "i", "l", "_", "i", "d">>, <<"E", "m", "a", "i", "l", " ", "a", "d", "d", "r", "e", "s", "s">>, <<"E", "m", "a", "i", "l", " ", "I", "D">>),
    Field(<<"w", "o", "r", "k", "_", "e", "x", "p", "e", "r", "i", "e", "n", "c", "e">>, <<"T", "o", "t", "a", "l", " ", "w", "o", "r", "k", " ", "e", "x", "p", "e", "r", "i", "e", "n", "c", "e", " ", "i", "n", " ", "y", "e", "a", "r", "s">>, <<"W", "o", "r", "k", " ", "E", "x", "p", "e", "r", "i", "e", "n", "c", "e">>),
    Field(<<"c", "u", "r", "r", "e", "n", "t", "_", "s", "a", "l", "a", "r", "y">>, <<"C", "u", "r", "r", "e", "n", "t", " ", "s", "a", "l", "a", "r", "y", " ", "o", "r", " ", "C", "T", "C">>, <<"C", "u", "r", "r", "e", "n", "t", " ", "S", "a", "l", "a", "r", "y">>),
    Field(<<"e", "x", "p", "e", "c", "t", "e", "d", "_", "s", "a", "l", "a", "r", "y">>, <<"E", "x", "p", "e", "c", "t", "e", "d", " ", "s", "a", "l", "a", "r", "y">>, <<"E", "x", "p", "e", "c", "t", "e", "d", " ", "S", "a", "l", "a", "r", "y">>),
    Field(<<"n", "o", "t", "i", "c", "e", "_", "p", "e", "r", "i", "o", "d">>, <<"C", "u", "r", "r", "e", "n", "t", " ", "n", "o", "t", "i", "c", "e", " ", "p", "e", "r", "i", "o", "d">>, <<"N", "o", "t", "i", "c", "e", " ", "P", "e", "r", "i", "o", "d">>),
    Field(<<"c", "u", "r", "r", "e", "n", "t", "_", "c", "o", "m", "p", "a", "n", "y">>, <<"C", "u", "r", "r", "e", "n", "t", " ", "c", "o", "m", "p", "a", "n", "y", " ", "n", "a", "m", "e">>, <<"C", "u", "r", "r", "e", "n", "t", " ", "C", "o", "m", "p", "a", "n", "y">>),
    Field(<<"p", "r", "e", "f", "e", "r", "r", "e", "d", "_", "l", "o", "c", "a", "t", "i", "o", "n">>, <<"P", "r", "e", "f", "e", "r", "r", "e", "d", " ", "w", "o", "r", "k", " ", "l", "o", "c", "a", "t", "i", "o", "n">>, <<"P", "r", "e", "f", "e", "r", "r", "e", "d", " ", "L", "o", "c", "a", "t", "i", "o", "n">>) >>

(* ------------------------- environment inputs ------------------------- *)

\* What the user types into the add-field form: (Field Name, Description, Column Name).
AddFieldInputs == {
    <<<<"n">>, <<"d">>, <<"L">>>>,
    <<<<"N">>, <<"d">>, <<"M">>>>,
    <<<<" ", "n">>, <<"d">>, <<"L">>>>,
    <<<<>>, <<"d">>, <<"L">>>> }

\* Names of the files handed to process_uploaded_files.
FileNames == { <<"a", ".", "p", "d", "f">>, <<"B", ".", "D", "O", "C">>, <<"c", ".", "t", "x", "t">> }

\* st.file_uploader(type=['pdf', 'docx', 'doc']) only lets these through.
UploaderAccepts(name) == Lower(SplitLast(name)) \in { <<"p", "d", "f">>, <<"d", "o", "c", "x">>, <<"d", "o", "c">> }

\* Schemas a caller other than main passes to process_uploaded_files.
DirectSchemas == { <<>>, <<[field_name |-> <<"n">>, description |-> <<"d">>, column_name |-> <<"L">>]>> }

\* All file lists of at most MaxDocs files over a set of names.
Batches(names) == UNION { [1..n -> names] : n \in 0..MaxDocs }

\* The file lists a caller can pass.
AllBatches == Batches(FileNames)

\* The file lists the uploader widget can hold.
UploadableBatches == Batches({name \in FileNames : UploaderAccepts(name)})

\* What text extraction can yield when it does not raise: no text at all, or some text.
ResumeTexts == { <<>>, <<"c", "v">> }

\* response.text values the service can answer with (generate_content can also raise).
ServiceResponses == {
    <<Backtick, Backtick, Backtick, "j", "s", "o", "n", "\n", "{", "\"", "n", "\"", ":", "\"", "N", "o", "t", " ", "F", "o", "u", "n", "d", "\"", "}", "\n", Backtick, Backtick, Backtick>>,
    <<Backtick, Backtick, Backtick, "\n", "{", "\"", "L", "\"", ":", "\"", "x", "\"", "}", "\n", Backtick, Backtick, Backtick>>,
    <<" ", "{", "\"", "n", "\"", ":", "\"", "N", "o", "t", " ", "F", "o", "u", "n", "d", "\"", "}", " ">>,
    <<Backtick, Backtick, Backtick, "j", "s", "o", "n", "\n", "{", "\"", "n", "\"", ":", "\"", "x", "\"", "}">>,
    <<"n", "o", "t", " ", "j", "s", "o", "n">>,
    <<"{", "}">>,
    <<"[", "\"", "x", "\"", "]">> }

\* datetime.now().strftime("%Y-%m-%d %H:%M:%S")
Timestamps == { <<"2", "0", "2", "5", "-", "0", "1", "-", "0", "1", " ", "0", "0", ":", "0", "0", ":", "0", "0">> }

(* ------------------------------ json.loads ---------------------------- *)

\* The JSON documents of the model: text, Python type of the value, its truth value,
\* and the dict (for an object).
JsonDocs == <<
    [text |-> <<"{", "\"", "n", "\"", ":", "\"", "N", "o", "t", " ", "F", "o", "u", "n", "d", "\"", "}">>, kind |-> "dict", truthy |-> TRUE,
     dict |-> << <<<<"n">>, NotFound>> >>],
    [text |-> <<"{", "\"", "L", "\"", ":", "\"", "x", "\"", "}">>, kind |-> "dict", truthy |-> TRUE,
     dict |-> << <<<<"L">>, <<"x">>>> >>],
    [text |-> <<"{", "}">>, kind |-> "dict", truthy |-> FALSE, dict |-> <<>>],
    [text |-> <<"[", "\"", "x", "\"", "]">>, kind |-> "list", truthy |-> TRUE, dict |-> <<>>] >>

\* json.loads(text): whitespace around the document is ignored; any text that is not a
\* JSON document raises (ok = FALSE).
JsonLoads(text) ==
    LET t == Strip(text)
    IN  IF \E k \in DOMAIN JsonDocs : JsonDocs[k].text = t
        THEN LET doc == JsonDocs[CHOOSE k \in DOMAIN JsonDocs : JsonDocs[k].text = t]
             IN  [ok |-> TRUE, kind |-> doc.kind, truthy |-> doc.truthy, dict |-> doc.dict]
        ELSE [ok |-> FALSE, kind |-> "error", truthy |-> FALSE, dict |-> <<>>]

(* -------------------------- response cleaning ------------------------- *)

FenceJson == <<Backtick, Backtick, Backtick, "j", "s", "o", "n">>

Fence == <<Backtick, Backtick, Backtick>>

\* parse_resume_with_gemma, "Clean JSON response": json_text is response.text.strip()
CleanJson(json_text) ==
    IF StartsWith(json_text, FenceJson) THEN Slice(json_text, 7, 3)
    ELSE IF StartsWith(json_text, Fence) THEN Slice(json_text, 3, 3)
    ELSE json_text

(* --------------------------- table assembly --------------------------- *)

\* pd.DataFrame(list of dicts).columns: the keys in order of first appearance
RECURSIVE DataFrameColumns(_)
DataFrameColumns(records) ==
    IF records = <<>> THEN <<>>
    ELSE LET front == DataFrameColumns(SubSeq(records, 1, Len(records) - 1))
             last  == Keys(records[Len(records)])
             NewKey(key) == ~InList(key, front)
         IN  front \o SelectSeq(last, NewKey)

\* column_mapping: field_name -> column_name for every field, then the two meta columns
RECURSIVE FieldMapping(_)
FieldMapping(fields) ==
    IF fields = <<>> THEN <<>>
    ELSE DictSet(FieldMapping(SubSeq(fields, 1, Len(fields) - 1)),
                 fields[Len(fields)].field_name, fields[Len(fields)].column_name)

ColumnMapping(fields) ==
    DictSet(DictSet(FieldMapping(fields), file_name_key, FileNameLabel),
            processed_date_key, ProcessedDateLabel)

\* df.rename(columns=column_mapping).columns
RenameColumns(columns, mapping) ==
    [k \in DOMAIN columns |->
        IF HasKey(mapping, columns[k]) THEN DictGet(mapping, columns[k]) ELSE columns[k]]

\* display_df[labels].columns: for every label, every column carrying that label
RECURSIVE SelectColumns(_, _)
SelectColumns(columns, labels) ==
    IF labels = <<>> THEN <<>>
    ELSE LET Same(c) == c = Head(labels)
         IN  SelectSeq(columns, Same) \o SelectColumns(columns, Tail(labels))

\* main, "Display results": the column labels of the table shown and exported
ColumnOrder(fields, display_columns) ==
    LET Present(field) == InList(field.column_name, display_columns)
        chosen == SelectSeq(fields, Present)
    IN  <<FileNameLabel>> \o [k \in DOMAIN chosen |-> chosen[k].column_name]
                          \o <<ProcessedDateLabel>>

TableColumns(records, fields) ==
    LET display_columns == RenameColumns(DataFrameColumns(records), ColumnMapping(fields))
        column_order == ColumnOrder(fields, display_columns)
        Existing(col) == InList(col, display_columns)
        existing_columns == SelectSeq(column_order, Existing)
    IN  SelectColumns(display_columns, existing_columns)

(* ------------------------------- state -------------------------------- *)

VARIABLES
    custom_fields,        \* st.session_state.custom_fields: the field schema
    processed_data,       \* st.session_state.processed_data: the result set kept by the page
    processing_complete,  \* st.session_state.processing_complete
    actions,              \* number of user interactions so far
    pc,                   \* "idle", or the position inside process_uploaded_files
    caller,               \* who called process_uploaded_files: "main", "direct" or "none"
    uploaded_files,       \* argument of the running (or last) call: the file names
    arg_fields,           \* argument of the running (or last) call: the schema
    i,                    \* loop index of the for loop (1-based)
    results,              \* local list of process_uploaded_files
    resume_text,          \* local: None or the extracted text
    response,             \* local: None when generate_content raised, else response.text
    json_text,            \* local: None, or the text handed to json.loads
    messages,             \* st.warning / st.error / st.success calls of the current script run
    events,               \* extract / request / sleep calls of the current call, in order
    doc_log,              \* per file of the current call: what happened to it
    outcome               \* "none", "running", "returned" or "raised" (exception left the call)

vars == <<custom_fields, processed_data, processing_complete, actions, pc, caller,
          uploaded_files, arg_fields, i, results, resume_text, response, json_text,
          messages, events, doc_log, outcome>>

session == <<custom_fields, processed_data, processing_complete>>

NoName == <<>>

Msg(kind, name) == [kind |-> kind, name |-> name]

Event(op, doc) == [op |-> op, doc |-> doc]

\* doc_log entry: state of the file, whether text extraction was attempted, whether it
\* yielded text, how many service requests were made, whether json.loads returned
Pending == [state |-> "Pending", extracted |-> FALSE, has_text |-> FALSE,
            requests |-> 0, parsed |-> FALSE]

\* render_sidebar: the else of "if submitted" runs in every script run that is not a
\* form submission
AllFieldsRequired == Msg("error", NoName)

\* main, "Show current configuration"
ConfigurationBanner(fields) ==
    IF fields # <<>> THEN Msg("success", NoName) ELSE Msg("warning", NoName)

Init ==
    /\ custom_fields = <<>>
    /\ processed_data = <<>>
    /\ processing_complete = FALSE
    /\ actions = 0
    /\ pc = "idle"
    /\ caller = "none"
    /\ uploaded_files = <<>>
    /\ arg_fields = <<>>
    /\ i = 0
    /\ results = <<>>
    /\ resume_text = None
    /\ response = None
    /\ json_text = None
    /\ messages = {AllFieldsRequired, ConfigurationBanner(<<>>)}
    /\ events = <<>>
    /\ doc_log = <<>>
    /\ outcome = "none"

\* A new script run: nothing of an earlier call to process_uploaded_files is left.
NoCall ==
    /\ pc' = "idle"
    /\ caller' = "none"
    /\ uploaded_files' = <<>>
    /\ arg_fields' = <<>>
    /\ i' = 0
    /\ results' = <<>>
    /\ resume_text' = None
    /\ response' = None
    /\ json_text' = None
    /\ events' = <<>>
    /\ doc_log' = <<>>
    /\ outcome' = "none"

UserActs ==
    /\ pc = "idle"
    /\ actions < MaxActions
    /\ actions' = actions + 1

(* ------------------------------ sidebar ------------------------------- *)

\* render_sidebar, "Check if field already exists"
FieldExists(field_name, fields) ==
    InList(Lower(field_name), [k \in DOMAIN fields |-> fields[k].field_name])

\* render_sidebar, "if submitted": the schema after the add-field form is submitted
SubmitAddField(fields, field_name, description, column_name) ==
    IF field_name # <<>> /\ description # <<>> /\ column_name # <<>>
    THEN IF ~FieldExists(field_name, fields)
         THEN Append(fields, Field(Strip(field_name), Strip(description), Strip(column_name)))
         ELSE fields
    ELSE fields

AddField(field_name, description, column_name) ==
    /\ UserActs
    /\ Len(custom_fields) < MaxFields
    /\ custom_fields' = SubmitAddField(custom_fields, field_name, description, column_name)
    /\ messages' =
         IF field_name # <<>> /\ description # <<>> /\ column_name # <<>>
         THEN IF ~FieldExists(field_name, custom_fields)
              THEN {AllFieldsRequired, ConfigurationBanner(custom_fields')}
              ELSE {Msg("error", NoName), ConfigurationBanner(custom_fields')}
         ELSE {ConfigurationBanner(custom_fields')}
    /\ UNCHANGED <<processed_data, processing_complete>>
    /\ NoCall

\* render_sidebar, delete button of the field at position pos: custom_fields.pop(pos - 1)
DeleteField(pos) ==
    /\ UserActs
    /\ pos \in DOMAIN custom_fields
    /\ custom_fields' = SubSeq(custom_fields, 1, pos - 1)
                          \o SubSeq(custom_fields, pos + 1, Len(custom_fields))
    /\ messages' = {AllFieldsRequired, ConfigurationBanner(custom_fields')}
    /\ UNCHANGED <<processed_data, processing_complete>>
    /\ NoCall

\* render_sidebar, "Clear All Fields" (only rendered when there are fields)
ClearAllFields ==
    /\ UserActs
    /\ custom_fields # <<>>
    /\ custom_fields' = <<>>
    /\ processed_data' = <<>>
    /\ processing_complete' = FALSE
    /\ messages' = {AllFieldsRequired, ConfigurationBanner(<<>>)}
    /\ NoCall

Template(fields) ==
    /\ UserActs
    /\ custom_fields' = fields
    /\ messages' = {AllFieldsRequired, ConfigurationBanner(fields)}
    /\ UNCHANGED <<processed_data, processing_complete>>
    /\ NoCall

BasicResumeFields == Template(basic_fields)

EducationFocus == Template(education_fields)

HRScreening == Template(hr_fields)

(* -------------------------- batch processing -------------------------- *)

\* process_uploaded_files without its guard
RefusesToRunNever(fields) == FALSE

\* process_uploaded_files: "if not custom_fields"
RefusesToRun(fields) == fields = <<>>

\* process_uploaded_files: file_extension = uploaded_file.name.lower().split('.')[-1]
FileExtension(name) == SplitLast(Lower(name))

IsPdf(file_extension) == file_extension = <<"p", "d", "f">>

\* every file that is not a pdf taken for a Word document
IsDocxAnything(file_extension) == TRUE

IsDocx(file_extension) == file_extension \in { <<"d", "o", "c", "x">>, <<"d", "o", "c">> }

\* the record stamped with the file name only
StampNameOnly(parsed_data, name, timestamp) == DictSet(parsed_data, file_name_key, name)

\* parsed_data['file_name'] = ...; parsed_data['processed_date'] = ...
Stamp(parsed_data, name, timestamp) ==
    DictSet(DictSet(parsed_data, file_name_key, name), processed_date_key, timestamp)

\* Entry of process_uploaded_files(model, files, fields), called by who, in a script run
\* that has shown the messages shown.
Enter(who, files, fields, shown) ==
    /\ caller' = who
    /\ uploaded_files' = files
    /\ arg_fields' = fields
    /\ results' = <<>>
    /\ resume_text' = None
    /\ response' = None
    /\ json_text' = None
    /\ events' = <<>>
    /\ doc_log' = [k \in DOMAIN files |-> Pending]
    /\ IF RefusesToRun(fields)
       THEN /\ messages' = shown \cup {Msg("error", NoName)}
            /\ i' = 0
            /\ pc' = "idle"
            /\ outcome' = "returned"
       ELSE /\ messages' = shown
            /\ i' = 1
            /\ pc' = "iter"
            /\ outcome' = "running"

\* main: the "Process All Resumes" button (disabled without files or without fields)
ProcessAllResumes(files) ==
    /\ UserActs
    /\ files # <<>>
    /\ custom_fields # <<>>
    /\ processed_data' = <<>>
    /\ processing_complete' = FALSE
    /\ UNCHANGED custom_fields
    /\ Enter("main", files, custom_fields,
             {AllFieldsRequired, ConfigurationBanner(custom_fields)})

\* process_uploaded_files called by a caller other than main, with its own arguments.
\* The function reads nothing of the session, so such calls are taken in a fresh session.
CallProcessUploadedFiles(files, fields) ==
    /\ UserActs
    /\ actions = 0
    /\ UNCHANGED session
    /\ Enter("direct", files, fields, {})

\* for i, uploaded_file in enumerate(uploaded_files): the next file, its extension
NextFile ==
    /\ pc = "iter"
    /\ i <= Len(uploaded_files)
    /\ LET file_extension == FileExtension(uploaded_files[i])
       IN  IF IsPdf(file_extension) \/ IsDocx(file_extension)
           THEN /\ pc' = "extract"
                /\ doc_log' = [doc_log EXCEPT ![i].state = "Extracting"]
                /\ UNCHANGED <<i, messages>>
           ELSE \* st.warning("Unsupported file type: ..."); continue
                /\ pc' = "iter"
                /\ i' = i + 1
                /\ doc_log' = [doc_log EXCEPT ![i].state = "Skipped"]
                /\ messages' = messages \cup {Msg("warning", uploaded_files[i])}
    /\ UNCHANGED <<session, actions, caller, uploaded_files, arg_fields, results,
                   resume_text, response, json_text, events, outcome>>

\* extract_text_from_pdf / extract_text_from_docx, then "if resume_text:"
ExtractText ==
    /\ pc = "extract"
    /\ events' = Append(events, Event("extract", i))
    /\ \/ \* the reader raised: st.error("Error reading ... {name}"), return None
          /\ resume_text' = None
          /\ messages' = messages \cup {Msg("error", uploaded_files[i])}
          /\ doc_log' = [doc_log EXCEPT ![i].state = "Failed", ![i].extracted = TRUE]
          /\ pc' = "pause"
       \/ \E text \in ResumeTexts :
            /\ resume_text' = Some(text)
            /\ UNCHANGED messages
            /\ IF text # <<>>
               THEN /\ doc_log' = [doc_log EXCEPT ![i].state = "Requesting",
                                                  ![i].extracted = TRUE,
                                                  ![i].has_text = TRUE]
                    /\ pc' = "request"
               ELSE /\ doc_log' = [doc_log EXCEPT ![i].state = "Failed",
                                                  ![i].extracted = TRUE]
                    /\ pc' = "pause"
    /\ UNCHANGED <<session, actions, caller, uploaded_files, arg_fields, i, results,
                   response, json_text, outcome>>

\* parse_resume_with_gemma up to response.text: the request to the service
GenerateContent ==
    /\ pc = "request"
    /\ IF arg_fields = <<>>
       THEN \* "if not custom_fields: return None", then "Failed to process"
            /\ response' = None
            /\ messages' = messages \cup {Msg("error", uploaded_files[i])}
            /\ doc_log' = [doc_log EXCEPT ![i].state = "Failed"]
            /\ pc' = "pause"
            /\ UNCHANGED events
       ELSE /\ events' = Append(events, Event("request", i))
            /\ doc_log' = [doc_log EXCEPT ![i].state = "Parsing",
                                          ![i].requests = doc_log[i].requests + 1]
            /\ \/ response' = None
               \/ \E text \in ServiceResponses : response' = Some(text)
            /\ pc' = "parse"
            /\ UNCHANGED messages
    /\ UNCHANGED <<session, actions, caller, uploaded_files, arg_fields, i, results,
                   resume_text, json_text, outcome>>

\* An exception leaves process_uploaded_files: main never stores results.
Raise ==
    /\ outcome' = "raised"
    /\ pc' = "idle"

\* parse_resume_with_gemma from "json_text = response.text.strip()" on, then
\* "if parsed_data:" in process_uploaded_files
ParseResponse ==
    /\ pc = "parse"
    /\ IF response = None
       THEN \* generate_content raised: st.error(...), return None; "Failed to process"
            /\ json_text' = None
            /\ messages' = messages \cup {Msg("error", NoName),
                                          Msg("error", uploaded_files[i])}
            /\ doc_log' = [doc_log EXCEPT ![i].state = "Failed"]
            /\ pc' = "pause"
            /\ UNCHANGED <<results, outcome>>
       ELSE LET cleaned == CleanJson(Strip(response[1]))
                loaded == JsonLoads(cleaned)
            IN  /\ json_text' = Some(cleaned)
                /\ IF ~loaded.ok
                   THEN \* json.loads raised: st.error(...), return None
                        /\ messages' = messages \cup {Msg("error", NoName),
                                                      Msg("error", uploaded_files[i])}
                        /\ doc_log' = [doc_log EXCEPT ![i].state = "Failed"]
                        /\ pc' = "pause"
                        /\ UNCHANGED <<results, outcome>>
                   ELSE IF ~loaded.truthy
                   THEN \* "if parsed_data:" is false
                        /\ messages' = messages \cup {Msg("error", uploaded_files[i])}
                        /\ doc_log' = [doc_log EXCEPT ![i].state = "Failed",
                                                      ![i].parsed = TRUE]
                        /\ pc' = "pause"
                        /\ UNCHANGED <<results, outcome>>
                   ELSE IF loaded.kind = "dict"
                   THEN \E timestamp \in Timestamps :
                        /\ results' = Append(results,
                                         Stamp(loaded.dict, uploaded_files[i], timestamp))
                        /\ messages' = messages \cup {Msg("success", uploaded_files[i])}
                        /\ doc_log' = [doc_log EXCEPT ![i].state = "Annotated",
                                                      ![i].parsed = TRUE]
                        /\ pc' = "pause"
                        /\ UNCHANGED outcome
                   ELSE \* parsed_data['file_name'] = ... on a list: TypeError
                        /\ doc_log' = [doc_log EXCEPT ![i].state = "Failed",
                                                      ![i].parsed = TRUE]
                        /\ Raise
                        /\ UNCHANGED <<results, messages>>
    /\ UNCHANGED <<session, actions, caller, uploaded_files, arg_fields, i,
                   resume_text, response, events>>

\* the end of an iteration without the pause
ProgressWithoutSleep ==
    /\ pc = "pause"
    /\ i' = i + 1
    /\ pc' = "iter"
    /\ resume_text' = None
    /\ response' = None
    /\ json_text' = None
    /\ UNCHANGED <<session, actions, caller, uploaded_files, arg_fields, results,
                   messages, events, doc_log, outcome>>

\* progress_bar.progress(...); time.sleep(0.5)
Progress ==
    /\ pc = "pause"
    /\ events' = Append(events, Event("sleep", i))
    /\ i' = i + 1
    /\ pc' = "iter"
    /\ resume_text' = None
    /\ response' = None
    /\ json_text' = None
    /\ UNCHANGED <<session, actions, caller, uploaded_files, arg_fields, results,
                   messages, doc_log, outcome>>

\* return results; main stores them and reports
Return ==
    /\ pc = "iter"
    /\ i > Len(uploaded_files)
    /\ pc' = "idle"
    /\ outcome' = "returned"
    /\ IF caller = "main"
       THEN /\ processed_data' = results
            /\ processing_complete' = TRUE
            /\ messages' = messages \cup
                  {IF results # <<>> THEN Msg("success", NoName) ELSE Msg("error", NoName)}
       ELSE UNCHANGED <<processed_data, processing_complete, messages>>
    /\ UNCHANGED <<custom_fields, actions, caller, uploaded_files, arg_fields, i, results,
                   resume_text, response, json_text, events, doc_log>>

Next ==
    \/ \E input \in AddFieldInputs : AddField(input[1], input[2], input[3])
    \/ \E pos \in DOMAIN custom_fields : DeleteField(pos)
    \/ ClearAllFields
    \/ BasicResumeFields
    \/ EducationFocus
    \/ HRScreening
    \/ \E files \in UploadableBatches : ProcessAllResumes(files)
    \/ \E files \in AllBatches, fields \in DirectSchemas :
          CallProcessUploadedFiles(files, fields)
    \/ NextFile
    \/ ExtractText
    \/ GenerateContent
    \/ ParseResponse
    \/ Progress
    \/ Return

Spec == Init /\ [][Next]_vars

TypeOK ==
    /\ pc \in {"idle", "iter", "extract", "request", "parse", "pause"}
    /\ outcome \in {"none", "running", "returned", "raised"}
    /\ Len(uploaded_files) <= MaxDocs
    /\ Len(results) <= Len(uploaded_files)

(* ------------------------------ properties ---------------------------- *)

Terminal == {"Annotated", "Skipped", "Failed"}

\* The names of the files whose index satisfies Test, in input order.
NamesWhere(Test(_)) ==
    LET indices == SelectSeq([k \in DOMAIN uploaded_files |-> k], Test)
    IN  [j \in DOMAIN indices |-> uploaded_files[indices[j]]]

\* The file_name values of a result set, in order.
FileNamesOf(records) == [k \in DOMAIN records |-> DictGet(records[k], file_name_key)]

\* C1: the failure of one document never aborts the batch: no exception leaves
\* process_uploaded_files, a failed document has no record, and a call that ran has
\* visited every document when it is over.
C1_BatchNeverAborts ==
    /\ outcome # "raised"
    /\ Len(results) = Cardinality({k \in DOMAIN doc_log : doc_log[k].state = "Annotated"})
    /\ (pc = "idle" /\ outcome # "none" /\ arg_fields # <<>>)
          => \A k \in DOMAIN doc_log : doc_log[k].state \in Terminal

\* C2: after a batch run the result set holds exactly one record for each document whose
\* response was successfully parsed, none for any other, in input order.
C2_OneRecordPerParsedDocument ==
    LET Parsed(k) == doc_log[k].parsed
    IN  outcome = "returned" =>
          /\ FileNamesOf(results) = NamesWhere(Parsed)
          /\ caller = "main" => processed_data = results

\* C3: with an empty schema or an empty document list process_uploaded_files returns an
\* empty result set, and neither text extraction nor the service is ever invoked.
C3_NothingDoneWithoutSchemaOrDocuments ==
    (outcome # "none" /\ (arg_fields = <<>> \/ uploaded_files = <<>>)) =>
        /\ results = <<>>
        /\ events = <<>>
        /\ \A k \in DOMAIN doc_log : ~doc_log[k].extracted /\ doc_log[k].requests = 0
        /\ outcome # "raised"
        /\ pc = "idle" => outcome = "returned"
        /\ (pc = "idle" /\ caller = "main") => processed_data = <<>>

C3_Witness ==
    /\ outcome = "returned"
    /\ arg_fields = <<>>
    /\ uploaded_files # <<>>
    /\ \E k \in DOMAIN uploaded_files : UploaderAccepts(uploaded_files[k])

\* C4: after any sequence of schema actions the field names of the schema are pairwise
\* distinct when compared without regard to letter case.
C4_FieldNamesDistinctIgnoringCase ==
    \A a, b \in DOMAIN custom_fields :
        a # b => Lower(custom_fields[a].field_name) # Lower(custom_fields[b].field_name)

EndsWith(s, suffix) ==
    /\ Len(s) >= Len(suffix)
    /\ SubSeq(s, Len(s) - Len(suffix) + 1, Len(s)) = suffix

\* The trimmed response without a leading fence marker if it has one and without a
\* trailing fence marker if it has one.
C5_FenceStripped(raw) ==
    LET trimmed == Strip(raw)
        headless == IF StartsWith(trimmed, FenceJson)
                    THEN SubSeq(trimmed, Len(FenceJson) + 1, Len(trimmed))
                    ELSE IF StartsWith(trimmed, Fence)
                    THEN SubSeq(trimmed, Len(Fence) + 1, Len(trimmed))
                    ELSE trimmed
    IN  IF EndsWith(headless, Fence)
        THEN SubSeq(headless, 1, Len(headless) - Len(Fence))
        ELSE headless

\* C5: the text handed to json.loads is the trimmed response with a leading fence marker
\* removed iff present and a trailing fence marker removed iff present; no character of
\* the payload is removed.
C5_OnlyFenceMarkersRemoved ==
    (response # None /\ json_text # None) => json_text[1] = C5_FenceStripped(response[1])

\* File Name, then the column_name of every schema field that is a key of some record,
\* in schema order, then Processed Date.
C6_ExpectedColumns(records, fields) ==
    LET Present(field) == \E k \in DOMAIN records : HasKey(records[k], field.field_name)
        chosen == SelectSeq(fields, Present)
    IN  <<FileNameLabel>> \o [k \in DOMAIN chosen |-> chosen[k].column_name]
                          \o <<ProcessedDateLabel>>

\* C6: the columns of the assembled table are File Name, then the column_name of each
\* schema field present in the result set in schema order, then Processed Date, each once,
\* and no other column.
C6_ColumnOrder ==
    (processing_complete /\ processed_data # <<>>) =>
        TableColumns(processed_data, custom_fields)
            = C6_ExpectedColumns(processed_data, custom_fields)

\* The extension of a file name is the text after its last '.', letter case ignored.
C7_Unsupported(name) == Lower(SplitLast(name)) \notin { <<"p", "d", "f">>, <<"d", "o", "c", "x">>, <<"d", "o", "c">> }

\* C7: a document with an unsupported extension is skipped before any text extraction or
\* service call for it, contributes no record, and does not stop the remaining
\* documents; the result set has at most as many records as there are supported documents.
C7_UnsupportedSkipped ==
    /\ \A k \in DOMAIN doc_log :
          C7_Unsupported(uploaded_files[k]) =>
             /\ ~doc_log[k].extracted
             /\ doc_log[k].requests = 0
             /\ \A e \in DOMAIN events : events[e].doc # k
             /\ doc_log[k].state \in {"Pending", "Skipped"}
             /\ (outcome = "running" /\ k < i) => doc_log[k].state = "Skipped"
             /\ outcome = "raised" => i # k
    /\ Len(results) = Cardinality({k \in DOMAIN doc_log : doc_log[k].state = "Annotated"})
    /\ Len(results) <= Len(uploaded_files)
          - Cardinality({k \in DOMAIN uploaded_files : C7_Unsupported(uploaded_files[k])})
    /\ (outcome = "returned" /\ arg_fields # <<>>)
          => \A k \in DOMAIN doc_log : doc_log[k].state \in Terminal

C7_Witness ==
    /\ outcome = "returned"
    /\ Len(uploaded_files) = 2
    /\ C7_Unsupported(uploaded_files[1])
    /\ doc_log[1].state = "Skipped"
    /\ doc_log[2].state = "Annotated"
    /\ Len(results) = 1

\* C8: every document of a batch that is left out of the result set has at least one
\* warning or error message naming it.
C8_EveryExclusionReported ==
    (outcome = "returned" /\ arg_fields # <<>>) =>
        \A k \in DOMAIN doc_log :
            doc_log[k].state # "Annotated" =>
                \E m \in messages : /\ m.kind \in {"warning", "error"}
                                    /\ m.name = uploaded_files[k]

C9_IsStamped(record, doc) ==
    /\ HasKey(record, file_name_key)
    /\ HasKey(record, processed_date_key)
    /\ DictGet(record, file_name_key) \in FileNames
    /\ DictGet(record, processed_date_key) \in Timestamps
    /\ \A k \in DOMAIN doc : /\ HasKey(record, doc[k][1])
                             /\ doc[k][1] \notin {file_name_key, processed_date_key}
                                   => DictGet(record, doc[k][1]) = doc[k][2]
    /\ \A k \in DOMAIN record : \/ record[k][1] \in {file_name_key, processed_date_key}
                                \/ HasKey(doc, record[k][1])

C10_OneRequestPerDocumentInTurn ==
    /\ \A k \in DOMAIN doc_log :
          /\ doc_log[k].requests <= 1
          /\ doc_log[k].requests = Cardinality({e \in DOMAIN events :
                                                   events[e] = Event("request", k)})
          /\ doc_log[k].requests > 0 => doc_log[k].has_text
          /\ doc_log[k].state # "Pending" =>
                \A j \in 1..(k - 1) : doc_log[j].state \in Terminal
    /\ \A b \in DOMAIN events :
          events[b].op = "request" =>
             /\ \E a \in 1..(b - 1) : events[a] = Event("extract", events[b].doc)
             /\ \A a \in 1..(b - 1) :
                   events[a].op = "request" =>
                      \E c \in (a + 1)..(b - 1) : events[c].op = "sleep"

C10_Witness ==
    /\ outcome = "returned"
    /\ \E a, b \in DOMAIN events :
          /\ a < b
          /\ events[a].op = "request"
          /\ events[b].op = "request"

====
